---- MODULE Spec2Model ----
(***************************************************************************)
(* Chimeo server core: connection manager, message delivery and            *)
(* delivery acknowledgment, modelled from src/src/routes/messages.py,      *)
(* src/src/services/message_service.py, src/src/utils/websocket_manager.py *)
(* and the ORM classes under src/src/models.                               *)
(***************************************************************************)
EXTENDS Integers, Sequences, FiniteSets, TLC

(***************************************************************************)
(* Bounds of the model.                                                    *)
(***************************************************************************)
\* rows the pending_messages table holds when the process starts
MaxPending == 2
\* message ids that POST /messages/ hands out during a run
MaxSends == 1
\* websocket connections accepted during a run
MaxChan == 2
\* friend request rows created during a run
MaxRequests == 3
\* the last reading of the clock
MaxNow == 3
\* Token answers handed out during a run
MaxIssued == 2

Users == {"alice", "bob"}
\* the rows of the users table: the messaging clients and one more account
DbUsers == Users \cup {"carol"}
\* the usernames a request body can carry: "ghost" has no row in users
Usernames == DbUsers \cup {"ghost"}
Texts == {"hi", "yo"}
\* lexicographic order of the usernames (Python's sorted on str)
Rank == [u \in Usernames |->
            IF u = "alice" THEN 1 ELSE IF u = "bob" THEN 2
            ELSE IF u = "carol" THEN 3 ELSE 4]

Chans == 1..MaxChan
\* active_connections.get(username) of an absent key
None == 0
MessageIds == 1..(MaxPending + MaxSends)
RequestIds == 1..MaxRequests

VARIABLES
    friendships,         \* table friendships: set of <<user1_username, user2_username>>
    pending_messages,    \* table pending_messages: set of rows
    active_connections,  \* ConnectionManager.active_connections: username -> websocket
    ws_user,             \* websocket -> path username of its endpoint task
    ws_state,            \* websocket -> "unused" | "open" | "closing" | "done"
    loop_calls,          \* coroutines scheduled on the event loop, oldest first
    next_uuid,           \* the next id uuid.uuid4() hands out
    friend_requests,     \* table friend_requests: set of rows
    next_request_uuid,   \* the next id the default of DbFriendRequest.id hands out
    users,               \* table users: set of rows
    utc_now,             \* datetime.now(UTC)
    issued,              \* the Token answers the clients have received
    auth_response        \* the last answer of a route of /auth

vars == <<friendships, pending_messages, active_connections, ws_user, ws_state,
          loop_calls, next_uuid, friend_requests, next_request_uuid,
          users, utc_now, issued, auth_response>>

(***************************************************************************)
(* ORM class DbPendingMessage.                                             *)
(***************************************************************************)
\* the mapped attributes of DbPendingMessage
DbPendingMessageColumns ==
    {"id", "sender_username", "recipient_username", "text", "created_at"}

PendingRow(id, sender, recipient, text, at) ==
    [id |-> id, sender_username |-> sender, recipient_username |-> recipient,
     text |-> text, created_at |-> at]

\* DbPendingMessage(**kwargs): the declarative constructor raises TypeError for
\* a keyword that is no attribute of the class
DbPendingMessageInit(kwargs) == kwargs \subseteq DbPendingMessageColumns

(***************************************************************************)
(* friendship_service                                                      *)
(***************************************************************************)
sorted(a, b) == IF Rank[a] <= Rank[b] THEN <<a, b>> ELSE <<b, a>>

get_friendship(fs, a, b) == {f \in fs : f = sorted(a, b)}

are_friends(fs, a, b) == get_friendship(fs, a, b) # {}

CanonicalPairs == {p \in Users \X Users : Rank[p[1]] < Rank[p[2]]}

(***************************************************************************)
(* Frames and scheduled coroutines                                         *)
(***************************************************************************)
\* {"type": "new_message", "data": {id, sender_username, recipient_username,
\* text, created_at, is_delivered}}; is_delivered is constant on each path
NewMessageFrame(id, sender, recipient, text, at) ==
    [type |-> "new_message", id |-> id, sender_username |-> sender,
     recipient_username |-> recipient, text |-> text, created_at |-> at]

\* {"type": "message_delivered", "data": {"message_id": id}}
DeliveredFrame(id) ==
    [type |-> "message_delivered", id |-> id, sender_username |-> "",
     recipient_username |-> "", text |-> "", created_at |-> 0]

\* one transmission: the frame and the websocket it went out on
Sent(c, frame) == [ws |-> c, frame |-> frame]

\* a send_personal_message(message, username) coroutine handed to the loop
Call(frame, username) == [message |-> frame, username |-> username]

\* WebSocket.send_text succeeds on a channel whose client is still there
send_text_ok(st, c) == st[c] = "open"

(***************************************************************************)
(* ConnectionManager                                                       *)
(***************************************************************************)
get_connection(conns, username) == conns[username]

\* a connect that keeps the binding the user already has;
\* RegisterReplacesPriorBinding tells it from the code's
connect_keeps_prior(conns, c, username) ==
    IF conns[username] # None THEN conns ELSE [conns EXCEPT ![username] = c]

connect(conns, c, username) == [conns EXCEPT ![username] = c]

\* a disconnect that leaves the binding in place;
\* TerminationUnregisters tells it from the code's
disconnect_keeps_binding(conns, username) == conns

disconnect(conns, username) == [conns EXCEPT ![username] = None]

\* send_personal_message: look the binding up, transmit, disconnect the user
\* when the transmission raises; no path has a return statement
send_personal_message(conns, st, message, username) ==
    LET websocket == get_connection(conns, username) IN
    IF websocket = None
    THEN [conns |-> conns, sent |-> <<>>, returned |-> "None"]
    ELSE IF send_text_ok(st, websocket)
         THEN [conns |-> conns, sent |-> <<Sent(websocket, message)>>,
               returned |-> "None"]
         ELSE [conns |-> disconnect(conns, username), sent |-> <<>>,
               returned |-> "None"]

\* a send_personal_message_sync that schedules the coroutine without looking
\* the user up; AckNotifiesRegisteredSender tells it from the code's
send_personal_message_sync_unchecked(conns, message, username) ==
    <<Call(message, username)>>

\* send_personal_message_sync: when the user is bound, schedule the coroutine
\* on the running loop (run_coroutine_threadsafe); it runs in a later step
send_personal_message_sync(conns, message, username) ==
    IF get_connection(conns, username) # None
    THEN <<Call(message, username)>>
    ELSE <<>>

(***************************************************************************)
(* message_service                                                         *)
(***************************************************************************)
\* create_pending_message builds DbPendingMessage(..., delivered=False), adds
\* and commits it; the TypeError of the constructor is no SQLAlchemyError and
\* leaves the function
create_pending_message(store, sender, recipient, text, id, now) ==
    IF DbPendingMessageInit({"id", "sender_username", "recipient_username",
                             "text", "created_at", "delivered"})
    THEN [raised |-> FALSE,
          store |-> store \cup {PendingRow(id, sender, recipient, text, now)}]
    ELSE [raised |-> TRUE, store |-> store]

\* send_message: None unless the two are friends and the row was created;
\* every exception is caught and gives None
send_message(fs, store, sender, recipient, text, id, now) ==
    IF ~are_friends(fs, sender, recipient)
    THEN [saved |-> FALSE, store |-> store]
    ELSE LET r == create_pending_message(store, sender, recipient, text, id, now)
         IN  [saved |-> ~r.raised, store |-> r.store]

\* all the orders in which a query without ORDER BY may return the rows S
RECURSIVE Orders(_)
Orders(S) ==
    IF S = {} THEN {<<>>}
    ELSE UNION {{<<m>> \o rest : rest \in Orders(S \ {m})} : m \in S}

\* get_pending_messages: the filter reads the class attribute
\* DbPendingMessage.delivered, whose absence raises AttributeError (no
\* SQLAlchemyError, so it leaves the function); the query has no ORDER BY
get_pending_messages(store, recipient) ==
    IF "delivered" \in DbPendingMessageColumns
    THEN {[raised |-> FALSE, rows |-> o] :
             o \in Orders({m \in store : m.recipient_username = recipient})}
    ELSE {[raised |-> TRUE, rows |-> <<>>]}

\* a mark_message_delivered that clears the recipient's whole backlog on one
\* acknowledgment; AckDeletesExactlyThatRow tells it from the code's
mark_message_delivered_clears_backlog(store, conns, message_id) ==
    LET found == {m \in store : m.id = message_id} IN
    IF found # {}
    THEN LET message == CHOOSE m \in found : TRUE IN
         [ok |-> TRUE,
          store |-> {m \in store : m.recipient_username # message.recipient_username},
          calls |-> send_personal_message_sync(
                        conns, DeliveredFrame(message_id), message.sender_username)]
    ELSE [ok |-> FALSE, store |-> store, calls |-> <<>>]

\* a mark_message_delivered that reports success for an id it does not find;
\* AckOfAbsentIdIsNotFound tells it from the code's
mark_message_delivered_always_true(store, conns, message_id) ==
    LET found == {m \in store : m.id = message_id} IN
    IF found # {}
    THEN LET message == CHOOSE m \in found : TRUE IN
         [ok |-> TRUE,
          store |-> store \ {message},
          calls |-> send_personal_message_sync(
                        conns, DeliveredFrame(message_id), message.sender_username)]
    ELSE [ok |-> TRUE, store |-> store, calls |-> <<>>]

\* mark_message_delivered: delete the row with that id and schedule the
\* notification of its sender; False when no row has the id
mark_message_delivered(store, conns, message_id) ==
    LET found == {m \in store : m.id = message_id} IN
    IF found # {}
    THEN LET message == CHOOSE m \in found : TRUE IN
         [ok |-> TRUE,
          store |-> store \ {message},
          calls |-> send_personal_message_sync(
                        conns, DeliveredFrame(message_id), message.sender_username)]
    ELSE [ok |-> FALSE, store |-> store, calls |-> <<>>]

\* send_pending_messages: transmit each row on the websocket c, then mark it
\* delivered; the first transmission that raises ends the loop. `alive` is
\* the number of transmissions the client stays for.
RECURSIVE send_pending_messages(_, _, _, _, _)
send_pending_messages(c, rows, alive, store, conns) ==
    IF rows = <<>>
    THEN [sent |-> <<>>, store |-> store, calls |-> <<>>, failed |-> FALSE]
    ELSE IF alive = 0
    THEN [sent |-> <<>>, store |-> store, calls |-> <<>>, failed |-> TRUE]
    ELSE LET message == Head(rows)
             d == mark_message_delivered(store, conns, message.id)
             rest == send_pending_messages(c, Tail(rows), alive - 1, d.store, conns)
         IN  [sent |-> <<Sent(c, NewMessageFrame(message.id, message.sender_username,
                                 message.recipient_username, message.text,
                                 message.created_at))>>
                       \o rest.sent,
              store |-> rest.store,
              calls |-> d.calls \o rest.calls,
              failed |-> rest.failed]

(***************************************************************************)
(* ORM class DbUser, passwords, tokens                                     *)
(***************************************************************************)
\* the mapped attributes of DbUser
DbUserColumns ==
    {"username", "display_name", "email", "hashed_password", "last_seen",
     "created_at"}

\* a row of the table users; display_name, last_seen and created_at are
\* written and never read by a decision of the program
DbUser(username, email, hashed_password) ==
    [username |-> username, email |-> email, hashed_password |-> hashed_password]

\* bcrypt: the hash verifies the password it was made of and no other
get_password_hash(password) == [bcrypt |-> password]

verify_password(plain_password, hashed_password) ==
    hashed_password = [bcrypt |-> plain_password]

\* the lifetimes of the tokens, in steps of the clock of the model; the
\* refresh token outlives the access token
ACCESS_TOKEN_EXPIRE_MINUTES == 1

REFRESH_TOKEN_EXPIRE_DAYS == 2

\* create_token: jwt.encode of {"sub": ..., "exp": now + expires_delta} under
\* SECRET_KEY; nothing in the payload tells what the token is for
create_token(sub, expires_delta, at) ==
    [sub |-> sub, exp |-> at + expires_delta, signed |-> TRUE]

create_access_token(sub, expires_delta, at) == create_token(sub, expires_delta, at)

create_refresh_token(sub, expires_delta, at) == create_token(sub, expires_delta, at)

\* no token at all, and a string that is no token signed by this server
NoToken == [sub |-> "", exp |-> 0, signed |-> FALSE]

Garbage == [sub |-> "garbage", exp |-> 0, signed |-> FALSE]

\* jwt.decode: the payload of a token with a good signature that has not
\* expired; JWTError (no payload) otherwise
jwt_decode(token, at) ==
    IF token.signed /\ token.exp >= at
    THEN {[sub |-> token.sub, exp |-> token.exp]}
    ELSE {}

\* decode_access_token: the payload, or the JWTError raised again
decode_access_token(token) == jwt_decode(token, utc_now)

\* the tokens a websocket client presents: none, a string that does not
\* decode, the access token of a user
Tokens ==
    {NoToken, Garbage}
        \cup {create_access_token(u, ACCESS_TOKEN_EXPIRE_MINUTES, 0) : u \in Users}

\* the close code of a refused handshake
WS_1008_POLICY_VIOLATION == 1008

\* a token check that takes every token that decodes, whoever its subject is;
\* HandshakeGate tells it from the code's
token_accepted_any_sub(token, username) ==
    token # NoToken /\ decode_access_token(token) # {}

\* decode_access_token(token).get("sub") = username
token_accepted(token, username) ==
    /\ token # NoToken
    /\ \E payload \in decode_access_token(token) : payload.sub = username

\* the account of a user the other routes act for
EmailOf(username) ==
    IF username = "alice" THEN "alice@x" ELSE IF username = "bob" THEN "bob@x"
    ELSE "carol@x"

Account(username) == DbUser(username, EmailOf(username), get_password_hash("pw1"))

NoResponse == [route |-> "", status |-> 0, error_code |-> ""]

(***************************************************************************)
(* Initial state: the process starts with an empty connection manager on a *)
(* database that outlives it. The stored rows are numbered in the order of *)
(* their creation.                                                         *)
(***************************************************************************)
StoredText(i) == IF i % 2 = 1 THEN "hi" ELSE "yo"

InitialStores ==
    UNION {{ {PendingRow(i, f[i][1], f[i][2], StoredText(i), i) : i \in 1..n} :
               f \in [1..n -> {q \in Users \X Users : q[1] # q[2]}]} :
           n \in 0..MaxPending}

Init ==
    /\ friendships \in SUBSET CanonicalPairs
    /\ pending_messages \in InitialStores
    /\ active_connections = [u \in Users |-> None]
    /\ ws_user = [c \in Chans |-> ""]
    /\ ws_state = [c \in Chans |-> "unused"]
    /\ loop_calls = <<>>
    /\ next_uuid = MaxPending + 1
    /\ friend_requests = {}
    /\ next_request_uuid = 1
    /\ users = {Account(u) : u \in Users}
    /\ utc_now = 0
    /\ issued = {}
    /\ auth_response = NoResponse

(***************************************************************************)
(* POST /messages/                                                         *)
(***************************************************************************)
\* what the call gives in the current state: the HTTP status, the id of the
\* MessageResponse, the frames transmitted, the table afterwards
create_message_out(current_user, recipient, text) ==
    LET message_id == next_uuid
        \* the clock reads later than at the creation of every stored row
        now == next_uuid
        connection == get_connection(active_connections, recipient)
        pushed == connection # None /\ send_text_ok(ws_state, connection)
        saved == send_message(friendships, pending_messages, current_user,
                              recipient, text, message_id, now)
    IN  IF pushed
        THEN [status |-> 200, id |-> message_id,
              sent |-> <<Sent(connection, NewMessageFrame(message_id, current_user,
                                                          recipient, text, now))>>,
              store |-> pending_messages]
        ELSE IF saved.saved
        THEN [status |-> 200, id |-> message_id, sent |-> <<>>, store |-> saved.store]
        ELSE [status |-> 400, id |-> 0, sent |-> <<>>, store |-> saved.store]

create_message(current_user, recipient, text) ==
    /\ next_uuid <= MaxPending + MaxSends
    /\ LET out == create_message_out(current_user, recipient, text)
       IN  /\ pending_messages' = out.store
           \* an id that was handed to nobody is as good as not minted
           /\ next_uuid' = IF out.status = 200 THEN next_uuid + 1 ELSE next_uuid
    /\ UNCHANGED <<users, utc_now, issued, auth_response>>
    /\ UNCHANGED <<friend_requests, next_request_uuid, friendships,
                   active_connections, ws_user, ws_state, loop_calls>>

(***************************************************************************)
(* POST /messages/delivered/{message_id}                                   *)
(***************************************************************************)
\* the caller is resolved from the bearer token and not used
mark_message_as_delivered_out(current_user, message_id) ==
    LET d == mark_message_delivered(pending_messages, active_connections, message_id)
        \* the row is looked up again after the delete
        message == {m \in d.store : m.id = message_id}
        sender_connection ==
            IF d.ok /\ message # {}
            THEN get_connection(active_connections,
                                (CHOOSE m \in message : TRUE).sender_username)
            ELSE None
        \* an exception of this send_text is logged and nothing else
        sent == IF sender_connection # None /\ send_text_ok(ws_state, sender_connection)
                THEN <<Sent(sender_connection, DeliveredFrame(message_id))>>
                ELSE <<>>
    IN  [status |-> IF d.ok THEN 200 ELSE 404, sent |-> sent, store |-> d.store,
         calls |-> d.calls]

mark_message_as_delivered(current_user, message_id) ==
    /\ LET out == mark_message_as_delivered_out(current_user, message_id)
       IN  /\ pending_messages' = out.store
           /\ loop_calls' = loop_calls \o out.calls
    /\ UNCHANGED <<users, utc_now, issued, auth_response>>
    /\ UNCHANGED <<friend_requests, next_request_uuid, friendships,
                   active_connections, ws_user, ws_state, next_uuid>>

(***************************************************************************)
(* WS /messages/ws/{username}                                              *)
(***************************************************************************)
\* the outcomes of the flush step on the websocket c: an exception of
\* send_pending_messages is logged and the endpoint goes on; otherwise the
\* client stays for any number of the transmissions
flush(c, username, store, conns) ==
    UNION {IF q.raised
           THEN {[sent |-> <<>>, store |-> store, calls |-> <<>>, failed |-> FALSE]}
           ELSE {send_pending_messages(c, q.rows, alive, store, conns) :
                    alive \in 0..Len(q.rows)} :
           q \in get_pending_messages(store, username)}

\* handshake, accept, register, flush of the pending messages. A handshake
\* that fails closes the socket (1008) before it is accepted.
websocket_endpoint_out(c, username, token) ==
    IF ~token_accepted(token, username)
    THEN {[accepted |-> FALSE, close |-> WS_1008_POLICY_VIOLATION,
           conns |-> active_connections, sent |-> <<>>,
           store |-> pending_messages, calls |-> <<>>, failed |-> FALSE]}
    ELSE LET conns == connect(active_connections, c, username) IN
         {[accepted |-> TRUE, close |-> 0, conns |-> conns, sent |-> f.sent,
           store |-> f.store, calls |-> f.calls, failed |-> f.failed] :
              f \in flush(c, username, pending_messages, conns)}

websocket_endpoint(c, username, token) ==
    /\ ws_state[c] = "unused"
    /\ \A b \in Chans : b < c => ws_state[b] # "unused"
    /\ \E out \in websocket_endpoint_out(c, username, token) :
          IF ~out.accepted
          THEN UNCHANGED <<pending_messages, active_connections, ws_user, ws_state,
                           loop_calls>>
          ELSE /\ active_connections' = out.conns
               /\ ws_user' = [ws_user EXCEPT ![c] = username]
               /\ pending_messages' = out.store
               /\ loop_calls' = loop_calls \o out.calls
               /\ ws_state' = [ws_state EXCEPT ![c] =
                                  IF out.failed THEN "closing" ELSE "open"]
    /\ UNCHANGED <<users, utc_now, issued, auth_response>>
    /\ UNCHANGED <<friend_requests, next_request_uuid, friendships,
                   next_uuid>>

\* handle_client_messages, frame {"type": "message_delivered", "data": {"message_id": id}}
handle_message_delivered_out(c, message_id) ==
    LET d == mark_message_delivered(pending_messages, active_connections, message_id)
        \* the row is looked up again after the delete
        delivered_message == {m \in d.store : m.id = message_id}
        n == IF d.ok /\ delivered_message # {}
             THEN send_personal_message(active_connections, ws_state,
                      DeliveredFrame(message_id),
                      (CHOOSE m \in delivered_message : TRUE).sender_username)
             ELSE [conns |-> active_connections, sent |-> <<>>]
    IN  [success |-> d.ok, sent |-> n.sent, store |-> d.store, calls |-> d.calls,
         conns |-> n.conns]

handle_message_delivered(c, message_id) ==
    /\ ws_state[c] = "open"
    /\ LET out == handle_message_delivered_out(c, message_id)
       IN  /\ pending_messages' = out.store
           /\ loop_calls' = loop_calls \o out.calls
           /\ active_connections' = out.conns
    /\ UNCHANGED <<users, utc_now, issued, auth_response>>
    /\ UNCHANGED <<friend_requests, next_request_uuid, friendships,
                   ws_user, ws_state, next_uuid>>

PongFrame == [type |-> "pong"]

\* the text frames a client can send besides message_delivered: text that is
\* no JSON, JSON that is no object, an object of a type the loop does not
\* know, a ping
Frames == {"malformed", "not_object", "unknown", "ping"}

\* a loop that a frame of malformed JSON ends;
\* BadFramesAreSkipped tells it from the code's
handle_client_messages_out_strict(c, frame) ==
    IF frame \in {"malformed", "not_object"}
    THEN [sent |-> <<>>, loop |-> "break", conns |-> active_connections,
          store |-> pending_messages]
    ELSE IF frame = "ping"
    THEN IF send_text_ok(ws_state, c)
         THEN [sent |-> <<Sent(c, PongFrame)>>, loop |-> "continue",
               conns |-> active_connections, store |-> pending_messages]
         ELSE [sent |-> <<>>, loop |-> "break", conns |-> active_connections,
          store |-> pending_messages]
    ELSE [sent |-> <<>>, loop |-> "continue", conns |-> active_connections,
          store |-> pending_messages]

\* one turn of the loop of handle_client_messages on a received frame: what is
\* transmitted and whether the loop goes on. json.loads raises JSONDecodeError
\* on malformed text (the loop continues); message.get raises AttributeError
\* on JSON that is no object (except Exception: break); a send_text that
\* raises ends the loop; no branch touches the database or the manager.
handle_client_messages_out(c, frame) ==
    IF frame = "malformed"
    THEN [sent |-> <<>>, loop |-> "continue", conns |-> active_connections,
          store |-> pending_messages]
    ELSE IF frame = "not_object"
    THEN [sent |-> <<>>, loop |-> "break", conns |-> active_connections,
          store |-> pending_messages]
    ELSE IF frame = "ping"
    THEN IF send_text_ok(ws_state, c)
         THEN [sent |-> <<Sent(c, PongFrame)>>, loop |-> "continue",
               conns |-> active_connections, store |-> pending_messages]
         ELSE [sent |-> <<>>, loop |-> "break", conns |-> active_connections,
          store |-> pending_messages]
    ELSE [sent |-> <<>>, loop |-> "continue", conns |-> active_connections,
          store |-> pending_messages]

\* a frame arrives on an open websocket; when the loop breaks,
\* handle_client_messages returns and the finally clause of websocket_endpoint
\* disconnects the user in the same turn of the event loop
handle_client_messages(c, frame) ==
    /\ ws_state[c] = "open"
    /\ LET out == handle_client_messages_out(c, frame) IN
       /\ pending_messages' = out.store
       /\ IF out.loop = "break"
          THEN /\ ws_state' = [ws_state EXCEPT ![c] = "done"]
               /\ ws_user' = [ws_user EXCEPT ![c] = ""]
               /\ active_connections' = disconnect(out.conns, ws_user[c])
          ELSE /\ active_connections' = out.conns
               /\ UNCHANGED <<ws_state, ws_user>>
    /\ UNCHANGED <<users, utc_now, issued, auth_response>>
    /\ UNCHANGED <<friend_requests, next_request_uuid, friendships,
                   loop_calls, next_uuid>>

\* the task is cancelled while it waits in receive_text: CancelledError passes
\* the except clauses and the finally clause disconnects the user
handle_client_messages_cancelled(c) ==
    /\ ws_state[c] = "open"
    /\ ws_state' = [ws_state EXCEPT ![c] = "done"]
    /\ ws_user' = [ws_user EXCEPT ![c] = ""]
    /\ active_connections' = disconnect(active_connections, ws_user[c])
    /\ UNCHANGED <<users, utc_now, issued, auth_response>>
    /\ UNCHANGED <<friend_requests, next_request_uuid, friendships,
                   pending_messages, loop_calls, next_uuid>>

\* the client goes away: the next receive_text raises WebSocketDisconnect and
\* every later send_text on the channel raises
client_close(c) ==
    /\ ws_state[c] = "open"
    /\ ws_state' = [ws_state EXCEPT ![c] = "closing"]
    /\ UNCHANGED <<users, utc_now, issued, auth_response>>
    /\ UNCHANGED <<friend_requests, next_request_uuid, friendships,
                   pending_messages, active_connections, ws_user,
                   loop_calls, next_uuid>>

\* handle_client_messages leaves its loop; finally: connection_manager.disconnect.
\* The socket object goes with its task.
websocket_endpoint_finally(c) ==
    /\ ws_state[c] = "closing"
    /\ ws_state' = [ws_state EXCEPT ![c] = "done"]
    /\ ws_user' = [ws_user EXCEPT ![c] = ""]
    /\ active_connections' = disconnect(active_connections, ws_user[c])
    /\ UNCHANGED <<users, utc_now, issued, auth_response>>
    /\ UNCHANGED <<friend_requests, next_request_uuid, friendships,
                   pending_messages, loop_calls, next_uuid>>

\* the event loop runs the oldest scheduled send_personal_message coroutine
run_scheduled_out ==
    send_personal_message(active_connections, ws_state,
                          Head(loop_calls).message, Head(loop_calls).username)

run_scheduled ==
    /\ loop_calls # <<>>
    /\ loop_calls' = Tail(loop_calls)
    /\ active_connections' = run_scheduled_out.conns
    /\ UNCHANGED <<users, utc_now, issued, auth_response>>
    /\ UNCHANGED <<friend_requests, next_request_uuid, friendships,
                   pending_messages, ws_user, ws_state, next_uuid>>

Next ==
    \/ \E s \in Users, r \in Users, t \in Texts : create_message(s, r, t)
    \/ \E u \in Users, id \in MessageIds : mark_message_as_delivered(u, id)
    \/ \E c \in Chans, u \in Users, tok \in Tokens : websocket_endpoint(c, u, tok)
    \/ \E c \in Chans, id \in MessageIds : handle_message_delivered(c, id)
    \/ \E c \in Chans, frame \in Frames : handle_client_messages(c, frame)
    \/ \E c \in Chans : handle_client_messages_cancelled(c)
    \/ \E c \in Chans : client_close(c)
    \/ \E c \in Chans : websocket_endpoint_finally(c)
    \/ run_scheduled

Spec == Init /\ [][Next]_vars

\* the event loop runs every task that is ready: a task whose receive_text
\* has raised WebSocketDisconnect gets to its finally clause
\* The friendships table plays no part in the life of a connection: the
\* process starts here with every pair of users friends.
InitLive == Init /\ friendships = CanonicalPairs

SpecLive ==
    /\ InitLive
    /\ [][Next]_vars
    /\ \A c \in Chans : WF_vars(websocket_endpoint_finally(c))

(***************************************************************************)
(* users_service: friend requests and friendships                          *)
(***************************************************************************)
\* FriendRequestStatus
PENDING == "pending"
ACCEPTED == "accepted"
REJECTED == "rejected"

\* DbFriendRequest(sender_username=..., recipient_username=...): the id and
\* the status come from the column defaults
DbFriendRequest(id, sender, recipient) ==
    [id |-> id, sender_username |-> sender, recipient_username |-> recipient,
     status |-> PENDING]

\* Query.first(): one row of the result, none when it is empty
first(rows) == IF rows = {} THEN {} ELSE {CHOOSE q \in rows : TRUE}

get_user_by_username(username) == first({u \in users : u.username = username})

\* a get_friend_request that reads a table from before the writes of the
\* other calls; SerializedFriendRequests tells it from the code's
get_friend_request_stale(frs, sender, recipient) == {}

get_friend_request(frs, sender, recipient) ==
    first({q \in frs : q.sender_username = sender /\ q.recipient_username = recipient})

\* the HTTP status of an APIError, by its error_code; 200 when nothing is raised
status_code(error_code) ==
    IF error_code = "" THEN 200
    ELSE IF error_code \in {"CANNOT_FRIEND_SELF", "INVALID_FRIEND_REQUEST_STATE"} THEN 400
    ELSE IF error_code = "NOT_AUTHORIZED" THEN 403
    ELSE IF error_code \in {"USER_NOT_FOUND", "FRIEND_REQUEST_NOT_FOUND"} THEN 404
    ELSE IF error_code \in {"FRIENDSHIP_ALREADY_EXISTS", "FRIEND_REQUEST_ALREADY_EXISTS"}
    THEN 409
    ELSE 500

\* what a service call gives: the error_code raised ("" for none), the kind
\* of object returned, and the two tables after the commit
Raised(error_code, frs, fs) ==
    [error |-> error_code, returned |-> "", row |-> {}, requests |-> frs,
     friendships |-> fs]

Returned(kind, row, frs, fs) ==
    [error |-> "", returned |-> kind, row |-> row, requests |-> frs,
     friendships |-> fs]

\* a create_friendship that stores the pair in the order of its arguments;
\* FriendshipRowsCanonical tells it from the code's
create_friendship_unsorted(frs, fs, user1_username, user2_username) ==
    IF get_friendship(fs, user1_username, user2_username) # {}
    THEN Raised("FRIENDSHIP_ALREADY_EXISTS", frs, fs)
    ELSE LET friendship == <<user1_username, user2_username>>
             request1 == get_friend_request(frs, user1_username, user2_username)
             request2 == get_friend_request(frs, user2_username, user1_username)
         IN  Returned("friendship", {friendship}, (frs \ request1) \ request2,
                      fs \cup {friendship})

\* a create_friendship that leaves the requests of the pair in their table;
\* NoPendingRequestBetweenFriends tells it from the code's
create_friendship_keeps_requests(frs, fs, user1_username, user2_username) ==
    IF get_friendship(fs, user1_username, user2_username) # {}
    THEN Raised("FRIENDSHIP_ALREADY_EXISTS", frs, fs)
    ELSE LET friendship == sorted(user1_username, user2_username)
         IN  Returned("friendship", {friendship}, frs, fs \cup {friendship})

\* a create_friendship that overwrites the table with the new row;
\* FriendshipOnlyByAcceptanceAndForGood tells it from the code's
create_friendship_overwrites(frs, fs, user1_username, user2_username) ==
    IF get_friendship(fs, user1_username, user2_username) # {}
    THEN Raised("FRIENDSHIP_ALREADY_EXISTS", frs, fs)
    ELSE LET friendship == sorted(user1_username, user2_username)
             request1 == get_friend_request(frs, user1_username, user2_username)
             request2 == get_friend_request(frs, user2_username, user1_username)
         IN  Returned("friendship", {friendship}, (frs \ request1) \ request2,
                      {friendship})

\* create_friendship: add the row under the sorted pair and delete the request
\* of either direction, in one commit
create_friendship(frs, fs, user1_username, user2_username) ==
    IF get_friendship(fs, user1_username, user2_username) # {}
    THEN Raised("FRIENDSHIP_ALREADY_EXISTS", frs, fs)
    ELSE LET friendship == sorted(user1_username, user2_username)
             request1 == get_friend_request(frs, user1_username, user2_username)
             request2 == get_friend_request(frs, user2_username, user1_username)
         IN  Returned("friendship", {friendship}, (frs \ request1) \ request2,
                      fs \cup {friendship})

\* a create_friend_request without the check of sender against recipient;
\* OneRequestPerOrderedPair tells it from the code's
create_friend_request_to_self(frs, fs, sender_username, recipient_username, id) ==
    IF get_user_by_username(recipient_username) = {}
    THEN Raised("USER_NOT_FOUND", frs, fs)
    ELSE IF are_friends(fs, sender_username, recipient_username)
    THEN Raised("FRIENDSHIP_ALREADY_EXISTS", frs, fs)
    ELSE IF get_friend_request(frs, sender_username, recipient_username) # {}
    THEN Raised("FRIEND_REQUEST_ALREADY_EXISTS", frs, fs)
    ELSE IF get_friend_request(frs, recipient_username, sender_username) # {}
    THEN create_friendship(frs, fs, sender_username, recipient_username)
    ELSE LET friend_request == DbFriendRequest(id, sender_username, recipient_username)
         IN  Returned("request", {friend_request}, frs \cup {friend_request}, fs)

\* a create_friend_request that does not look the recipient up;
\* SendRequestErrorOrder tells it from the code's
create_friend_request_no_lookup(frs, fs, sender_username, recipient_username, id) ==
    IF sender_username = recipient_username
    THEN Raised("CANNOT_FRIEND_SELF", frs, fs)
    ELSE IF are_friends(fs, sender_username, recipient_username)
    THEN Raised("FRIENDSHIP_ALREADY_EXISTS", frs, fs)
    ELSE IF get_friend_request(frs, sender_username, recipient_username) # {}
    THEN Raised("FRIEND_REQUEST_ALREADY_EXISTS", frs, fs)
    ELSE IF get_friend_request(frs, recipient_username, sender_username) # {}
    THEN create_friendship(frs, fs, sender_username, recipient_username)
    ELSE LET friend_request == DbFriendRequest(id, sender_username, recipient_username)
         IN  Returned("request", {friend_request}, frs \cup {friend_request}, fs)

\* a create_friend_request that files a second request beside the reverse
\* one; AutoAccept tells it from the code's
create_friend_request_no_auto_accept(frs, fs, sender_username, recipient_username, id) ==
    IF sender_username = recipient_username
    THEN Raised("CANNOT_FRIEND_SELF", frs, fs)
    ELSE IF get_user_by_username(recipient_username) = {}
    THEN Raised("USER_NOT_FOUND", frs, fs)
    ELSE IF are_friends(fs, sender_username, recipient_username)
    THEN Raised("FRIENDSHIP_ALREADY_EXISTS", frs, fs)
    ELSE IF get_friend_request(frs, sender_username, recipient_username) # {}
    THEN Raised("FRIEND_REQUEST_ALREADY_EXISTS", frs, fs)
    ELSE LET friend_request == DbFriendRequest(id, sender_username, recipient_username)
         IN  Returned("request", {friend_request}, frs \cup {friend_request}, fs)

create_friend_request(frs, fs, sender_username, recipient_username, id) ==
    IF sender_username = recipient_username
    THEN Raised("CANNOT_FRIEND_SELF", frs, fs)
    ELSE IF get_user_by_username(recipient_username) = {}
    THEN Raised("USER_NOT_FOUND", frs, fs)
    ELSE IF are_friends(fs, sender_username, recipient_username)
    THEN Raised("FRIENDSHIP_ALREADY_EXISTS", frs, fs)
    ELSE IF get_friend_request(frs, sender_username, recipient_username) # {}
    THEN Raised("FRIEND_REQUEST_ALREADY_EXISTS", frs, fs)
    ELSE IF get_friend_request(frs, recipient_username, sender_username) # {}
    THEN create_friendship(frs, fs, sender_username, recipient_username)
    ELSE LET friend_request == DbFriendRequest(id, sender_username, recipient_username)
         IN  Returned("request", {friend_request}, frs \cup {friend_request}, fs)

\* an accept_friend_request that does not look at the status of the request;
\* RespondErrors tells it from the code's
accept_friend_request_any_status(frs, fs, request_id, current_user_username) ==
    LET found == first({q \in frs : q.id = request_id}) IN
    IF found = {}
    THEN Raised("FRIEND_REQUEST_NOT_FOUND", frs, fs)
    ELSE LET friend_request == CHOOSE q \in found : TRUE IN
         IF friend_request.recipient_username # current_user_username
         THEN Raised("NOT_AUTHORIZED", frs, fs)
         ELSE create_friendship(frs, fs, friend_request.sender_username,
                                friend_request.recipient_username)

\* an accept_friend_request that commits the removal of the request and leaves
\* the friendship to a later commit; AcceptIsAtomic tells it from the code's
accept_friend_request_in_two_commits(frs, fs, request_id, current_user_username) ==
    LET found == first({q \in frs : q.id = request_id}) IN
    IF found = {}
    THEN Raised("FRIEND_REQUEST_NOT_FOUND", frs, fs)
    ELSE LET friend_request == CHOOSE q \in found : TRUE IN
         IF friend_request.recipient_username # current_user_username
         THEN Raised("NOT_AUTHORIZED", frs, fs)
         ELSE IF friend_request.status # PENDING
         THEN Raised("INVALID_FRIEND_REQUEST_STATE", frs, fs)
         ELSE Returned("friendship",
                       {sorted(friend_request.sender_username,
                               friend_request.recipient_username)},
                       frs \ {friend_request}, fs)

accept_friend_request(frs, fs, request_id, current_user_username) ==
    LET found == first({q \in frs : q.id = request_id}) IN
    IF found = {}
    THEN Raised("FRIEND_REQUEST_NOT_FOUND", frs, fs)
    ELSE LET friend_request == CHOOSE q \in found : TRUE IN
         IF friend_request.recipient_username # current_user_username
         THEN Raised("NOT_AUTHORIZED", frs, fs)
         ELSE IF friend_request.status # PENDING
         THEN Raised("INVALID_FRIEND_REQUEST_STATE", frs, fs)
         ELSE create_friendship(frs, fs, friend_request.sender_username,
                                friend_request.recipient_username)

\* a reject_friend_request that rejects every request addressed to the caller;
\* RejectChangesOneStatus tells it from the code's
reject_friend_request_rejects_all(frs, fs, request_id, current_user_username) ==
    LET found == first({q \in frs : q.id = request_id}) IN
    IF found = {}
    THEN Raised("FRIEND_REQUEST_NOT_FOUND", frs, fs)
    ELSE LET friend_request == CHOOSE q \in found : TRUE IN
         IF friend_request.recipient_username # current_user_username
         THEN Raised("NOT_AUTHORIZED", frs, fs)
         ELSE IF friend_request.status # PENDING
         THEN Raised("INVALID_FRIEND_REQUEST_STATE", frs, fs)
         ELSE LET rejected == [friend_request EXCEPT !.status = REJECTED]
              IN  Returned("request", {rejected},
                           {IF q.recipient_username = current_user_username
                            THEN [q EXCEPT !.status = REJECTED] ELSE q : q \in frs},
                           fs)

reject_friend_request(frs, fs, request_id, current_user_username) ==
    LET found == first({q \in frs : q.id = request_id}) IN
    IF found = {}
    THEN Raised("FRIEND_REQUEST_NOT_FOUND", frs, fs)
    ELSE LET friend_request == CHOOSE q \in found : TRUE IN
         IF friend_request.recipient_username # current_user_username
         THEN Raised("NOT_AUTHORIZED", frs, fs)
         ELSE IF friend_request.status # PENDING
         THEN Raised("INVALID_FRIEND_REQUEST_STATE", frs, fs)
         ELSE LET rejected == [friend_request EXCEPT !.status = REJECTED]
              IN  Returned("request", {rejected},
                           (frs \ {friend_request}) \cup {rejected}, fs)

\* the letters of the usernames in the users table
Spelling ==
    [u \in DbUsers |->
        IF u = "alice" THEN <<"a", "l", "i", "c", "e">>
        ELSE IF u = "bob" THEN <<"b", "o", "b">>
        ELSE <<"c", "a", "r", "o", "l">>]

\* the search strings: of the three characters the route asks for, and
\* shorter ones that only a direct call of the service can carry
Queries ==
    {<<"a", "l", "i">>, <<"B", "O", "B">>, <<"r", "o", "l">>, <<"x", "y", "z">>,
     <<"A">>, <<"o">>}

lower(c) == IF c = "A" THEN "a" ELSE IF c = "B" THEN "b" ELSE IF c = "O" THEN "o" ELSE c

\* username ILIKE '%query%'
ilike(username, query) ==
    \E i \in 1..(Len(Spelling[username]) - Len(query) + 1) :
        \A k \in 1..Len(query) : Spelling[username][i + k - 1] = lower(query[k])

\* the default of the parameter limit of search_users_by_query
SearchLimit == 20

\* a search that leaves out only the users with a PENDING request of the
\* caller; SearchExclusion tells it from the code's
search_users_by_query_pending_only(frs, fs, query, current_user_username, limit) ==
    LET sent_requests == {q.recipient_username :
                             q \in {p \in frs : p.sender_username = current_user_username
                                                 /\ p.status = PENDING}}
        friends == {f[2] : f \in {g \in fs : g[1] = current_user_username}}
                   \cup {f[1] : f \in {g \in fs : g[2] = current_user_username}}
        rows == {u \in DbUsers : /\ u # current_user_username
                                 /\ ilike(u, query)
                                 /\ u \notin sent_requests
                                 /\ u \notin friends}
    IN  {page \in SUBSET rows :
            Cardinality(page) = IF Cardinality(rows) < limit
                                THEN Cardinality(rows) ELSE limit}

\* search_users_by_query: the result sets the query can give; LIMIT without
\* ORDER BY keeps any `limit` of the rows
search_users_by_query(frs, fs, query, current_user_username, limit) ==
    LET sent_requests == {q.recipient_username :
                             q \in {p \in frs : p.sender_username = current_user_username}}
        friends == {f[2] : f \in {g \in fs : g[1] = current_user_username}}
                   \cup {f[1] : f \in {g \in fs : g[2] = current_user_username}}
        rows == {u \in DbUsers : /\ u # current_user_username
                                 /\ ilike(u, query)
                                 /\ u \notin sent_requests
                                 /\ u \notin friends}
    IN  {page \in SUBSET rows :
            Cardinality(page) = IF Cardinality(rows) < limit
                                THEN Cardinality(rows) ELSE limit}

\* GET /users/search?q=...
search_users(current_user, q) ==
    search_users_by_query(friend_requests, friendships, q, current_user, SearchLimit)

\* GET /users/friends/requests/received
get_user_friend_requests(frs, username) ==
    {q \in frs : q.recipient_username = username /\ q.status = PENDING}

\* GET /users/friends/requests/sent
get_sent_friend_requests(frs, username) ==
    {q \in frs : q.sender_username = username /\ q.status = PENDING}

(***************************************************************************)
(* POST /users/friends/request                                             *)
(***************************************************************************)
\* FriendRequestResponse.status: "pending" for a returned DbFriendRequest,
\* "accepted" for anything else; no body when an APIError is raised
response_status(response) ==
    IF response.error # "" THEN ""
    ELSE IF response.returned = "request" THEN "pending"
    ELSE "accepted"

\* the service outcome and the FriendRequestResponse.status of the route
send_friend_request_out(current_user, username) ==
    LET response == create_friend_request(friend_requests, friendships,
                                          current_user, username, next_request_uuid)
    IN  [http |-> status_code(response.error),
         status |-> response_status(response),
         response |-> response]

send_friend_request(current_user, username) ==
    /\ next_request_uuid <= MaxRequests
    /\ LET out == send_friend_request_out(current_user, username)
       IN  /\ friend_requests' = out.response.requests
           /\ friendships' = out.response.friendships
           /\ next_request_uuid' = IF out.response.returned = "request"
                                   THEN next_request_uuid + 1
                                   ELSE next_request_uuid
    /\ UNCHANGED <<users, utc_now, issued, auth_response>>
    /\ UNCHANGED <<pending_messages, active_connections, ws_user, ws_state,
                   loop_calls, next_uuid>>

(***************************************************************************)
(* POST /users/friends/respond                                             *)
(***************************************************************************)
Actions == {"accept", "reject", "block"}

respond_to_friend_request_out(current_user, request_id, action) ==
    IF action = "accept"
    THEN LET response == accept_friend_request(friend_requests, friendships,
                                               request_id, current_user)
             friend_username ==
                 IF response.error # "" THEN ""
                 ELSE LET friendship == CHOOSE f \in response.row : TRUE
                      IN  IF friendship[2] # current_user
                          THEN friendship[1] ELSE friendship[2]
         IN  [http |-> status_code(response.error), response |-> response,
              user |-> friend_username]
    ELSE IF action = "reject"
    THEN LET response == reject_friend_request(friend_requests, friendships,
                                               request_id, current_user)
             user == IF response.error # "" THEN ""
                     ELSE (CHOOSE q \in response.row : TRUE).sender_username
         IN  [http |-> status_code(response.error), response |-> response,
              user |-> user]
    \* the HTTPException of the last branch is no APIError: the handler's own
    \* except clause turns it into a 500
    ELSE [http |-> 500, response |-> Raised("", friend_requests, friendships),
          user |-> ""]

respond_to_friend_request(current_user, request_id, action) ==
    /\ LET out == respond_to_friend_request_out(current_user, request_id, action)
       IN  /\ friend_requests' = out.response.requests
           /\ friendships' = out.response.friendships
    /\ UNCHANGED <<users, utc_now, issued, auth_response>>
    /\ UNCHANGED <<pending_messages, active_connections, ws_user, ws_state,
                   loop_calls, next_uuid, next_request_uuid>>

\* a fresh database and no connection
InitFriends ==
    /\ friendships = {}
    /\ friend_requests = {}
    /\ next_request_uuid = 1
    /\ pending_messages = {}
    /\ active_connections = [u \in Users |-> None]
    /\ ws_user = [c \in Chans |-> ""]
    /\ ws_state = [c \in Chans |-> "unused"]
    /\ loop_calls = <<>>
    /\ next_uuid = MaxPending + 1
    /\ users = {Account(u) : u \in DbUsers}
    /\ utc_now = 0
    /\ issued = {}
    /\ auth_response = NoResponse

NextFriends ==
    \/ \E u \in DbUsers, name \in Usernames : send_friend_request(u, name)
    \/ \E u \in DbUsers, id \in RequestIds, action \in Actions :
          respond_to_friend_request(u, id, action)

SpecFriends == InitFriends /\ [][NextFriends]_vars

(***************************************************************************)
(* auth_service and the routes of /auth                                    *)
(***************************************************************************)
\* the usernames, emails and passwords of the requests
AuthNames == {"al", "alice", "bob"}

Emails == {"alice@x", "bob@x"}

Passwords == {"", "pw1", "pw2"}

len(str) == IF str = "" THEN 0 ELSE IF str = "al" THEN 2 ELSE IF str = "alice" THEN 5 ELSE 3

MIN_PASSWORD_LENGTH == 1

\* validate_password_strength; REQUIRE_SPECIAL_CHARS is False
validate_password_strength(password) == len(password) >= MIN_PASSWORD_LENGTH

get_user_by_email(us, email) == first({u \in us : u.email = email})

\* what Session.commit writes of a DbUser object: its mapped attributes; an
\* attribute that is no column stays on the object and goes with the request
mapped(user) ==
    IF {"hashed_refresh_token", "refresh_token_expires_at"} \subseteq DbUserColumns
    THEN user
    ELSE DbUser(user.username, user.email, user.hashed_password)

\* what the row of a user holds of the refresh token: its hash, and nothing
\* when the table has no column for it
stored_refresh_token(user) ==
    IF "hashed_refresh_token" \in DbUserColumns THEN user.hashed_refresh_token ELSE {}

\* what an auth service call gives: the error_code of the APIError raised or
\* the name of another exception ("" for none), the DbUser or Token returned,
\* and the table users afterwards
AuthRaised(error, us) == [error |-> error, returned |-> {}, users |-> us]

AuthReturned(value, us) == [error |-> "", returned |-> {value}, users |-> us]

\* a create_user whose DbUser takes the two refresh-token keywords, so that
\* the row is added and committed; RegisterFailsClean tells it from the code's
create_user_keywords_taken(us, username, email, password) ==
    IF len(username) < 3
    THEN AuthRaised("USERNAME_TOO_SHORT", us)
    ELSE IF first({u \in us : u.username = username}) # {}
    THEN AuthRaised("USERNAME_EXISTS", us)
    ELSE IF get_user_by_email(us, email) # {}
    THEN AuthRaised("EMAIL_EXISTS", us)
    ELSE IF ~validate_password_strength(password)
    THEN AuthRaised("WEAK_PASSWORD", us)
    ELSE LET db_user == DbUser(username, email, get_password_hash(password))
         IN  AuthReturned(db_user, us \cup {db_user})

\* create_user: the four checks in their order, then the constructor
\* DbUser(..., hashed_refresh_token=None, refresh_token_expires_at=None),
\* which raises TypeError for a keyword that is no mapped attribute, before
\* db.add
create_user(us, username, email, password) ==
    IF len(username) < 3
    THEN AuthRaised("USERNAME_TOO_SHORT", us)
    ELSE IF first({u \in us : u.username = username}) # {}
    THEN AuthRaised("USERNAME_EXISTS", us)
    ELSE IF get_user_by_email(us, email) # {}
    THEN AuthRaised("EMAIL_EXISTS", us)
    ELSE IF ~validate_password_strength(password)
    THEN AuthRaised("WEAK_PASSWORD", us)
    ELSE IF {"hashed_refresh_token", "refresh_token_expires_at"} \subseteq DbUserColumns
    THEN LET db_user == DbUser(username, email, get_password_hash(password))
         IN  AuthReturned(db_user, us \cup {db_user})
    ELSE AuthRaised("TypeError", us)

authenticate_user(us, email, password) ==
    LET user == get_user_by_email(us, email) IN
    IF user = {}
    THEN AuthRaised("EMAIL_NOT_FOUND", us)
    ELSE IF ~verify_password(password, (CHOOSE u \in user : TRUE).hashed_password)
    THEN AuthRaised("INVALID_CREDENTIALS", us)
    ELSE AuthReturned(CHOOSE u \in user : TRUE, us)

\* get_token_hash: bcrypt reads the first 72 bytes of the token, which hold
\* the header, the sub and the leading digits of exp
get_token_hash(token) == [bcrypt |-> [sub |-> token.sub, exp |-> token.exp \div 2]]

verify_token(plain_token, hashed_token) ==
    /\ plain_token # NoToken
    /\ hashed_token # {}
    /\ hashed_token = {get_token_hash(plain_token)}

Token(username, access_token, refresh_token) ==
    [username |-> username, access_token |-> access_token,
     refresh_token |-> refresh_token, token_type |-> "bearer"]

\* create_and_store_tokens: the two tokens, the hash and the expiry set on the
\* object, the commit; commit_ok tells whether the database takes the commit
create_and_store_tokens(us, user, at, commit_ok) ==
    LET access_token == create_access_token(user.username,
                                            ACCESS_TOKEN_EXPIRE_MINUTES, at)
        refresh_token == create_refresh_token(user.username,
                                              REFRESH_TOKEN_EXPIRE_DAYS, at)
        updated == [username |-> user.username, email |-> user.email,
                    hashed_password |-> user.hashed_password,
                    hashed_refresh_token |-> {get_token_hash(refresh_token)},
                    refresh_token_expires_at |-> {at + REFRESH_TOKEN_EXPIRE_DAYS}]
    IN  IF commit_ok
        THEN AuthReturned(Token(user.username, access_token, refresh_token),
                          (us \ {user}) \cup {mapped(updated)})
        ELSE AuthRaised("AUTHENTICATION_ERROR", us)

\* refresh_access_token: user.hashed_refresh_token on a DbUser loaded from the
\* database raises AttributeError when the class maps no such column
refresh_access_token(us, provided_refresh_token, at) ==
    LET payload == jwt_decode(provided_refresh_token, at) IN
    IF payload = {}
    THEN AuthRaised("AUTHENTICATION_ERROR", us)
    ELSE LET found == first({u \in us : u.username = (CHOOSE p \in payload : TRUE).sub}) IN
         IF found = {}
         THEN AuthRaised("AUTHENTICATION_ERROR", us)
         ELSE IF "hashed_refresh_token" \notin DbUserColumns
         THEN AuthRaised("AttributeError", us)
         ELSE LET user == CHOOSE u \in found : TRUE IN
              IF user.hashed_refresh_token = {} \/ user.refresh_token_expires_at = {}
              THEN AuthRaised("AUTHENTICATION_ERROR", us)
              ELSE IF \E e \in user.refresh_token_expires_at : at > e
              THEN AuthRaised("AUTHENTICATION_ERROR", us)
              ELSE IF ~verify_token(provided_refresh_token, user.hashed_refresh_token)
              THEN AuthRaised("AUTHENTICATION_ERROR", us)
              ELSE AuthReturned(
                       Token(user.username,
                             create_access_token(user.username,
                                                 ACCESS_TOKEN_EXPIRE_MINUTES, at),
                             provided_refresh_token),
                       us)

\* get_current_user: the user the bearer token resolves to, or none (401)
get_current_user(us, token, at) ==
    LET payload == jwt_decode(token, at) IN
    IF payload = {}
    THEN {}
    ELSE first({u \in us : u.username = (CHOOSE p \in payload : TRUE).sub})

\* the status and error_code of the APIError classes of the auth service
auth_status_code(error_code) ==
    IF error_code \in {"USERNAME_TOO_SHORT", "WEAK_PASSWORD"} THEN 400
    ELSE IF error_code \in {"AUTHENTICATION_ERROR", "INVALID_CREDENTIALS"} THEN 401
    ELSE IF error_code = "EMAIL_NOT_FOUND" THEN 404
    ELSE IF error_code \in {"USERNAME_EXISTS", "EMAIL_EXISTS"} THEN 409
    ELSE 500

AuthenticationErrors == {"AUTHENTICATION_ERROR", "EMAIL_NOT_FOUND", "INVALID_CREDENTIALS"}

ApiErrors ==
    AuthenticationErrors
        \cup {"USERNAME_TOO_SHORT", "USERNAME_EXISTS", "EMAIL_EXISTS", "WEAK_PASSWORD"}

Answer(route, status, error_code, token, us) ==
    [route |-> route, status |-> status, error_code |-> error_code,
     token |-> token, users |-> us]

\* POST /auth/register: an APIError goes to the handler of the application,
\* any other exception becomes a 500
register_out(username, email, password, commit_ok) ==
    LET user == create_user(users, username, email, password) IN
    IF user.error # ""
    THEN IF user.error \in ApiErrors
         THEN Answer("register", auth_status_code(user.error), user.error, {}, user.users)
         ELSE Answer("register", 500, "", {}, user.users)
    ELSE LET token_response ==
                 create_and_store_tokens(user.users, CHOOSE u \in user.returned : TRUE,
                                         utc_now, commit_ok)
         IN  IF token_response.error # ""
             THEN Answer("register", auth_status_code(token_response.error),
                         token_response.error, {}, token_response.users)
             ELSE Answer("register", 201, "", token_response.returned,
                         token_response.users)

\* POST /auth/login: every AuthenticationError becomes an HTTPException with
\* status 401 that carries the detail and no error_code
login_out(email, password, commit_ok) ==
    LET user == authenticate_user(users, email, password) IN
    IF user.error # ""
    THEN Answer("login", 401, "", {}, user.users)
    ELSE LET token_response ==
                 create_and_store_tokens(user.users, CHOOSE u \in user.returned : TRUE,
                                         utc_now, commit_ok)
         IN  IF token_response.error # ""
             THEN Answer("login", 401, "", {}, token_response.users)
             ELSE Answer("login", 200, "", token_response.returned,
                         token_response.users)

\* POST /auth/refresh
refresh_token_out(token) ==
    LET new_token_response == refresh_access_token(users, token, utc_now) IN
    IF new_token_response.error \in AuthenticationErrors
    THEN Answer("refresh", 401, "", {}, new_token_response.users)
    ELSE IF new_token_response.error # ""
    THEN Answer("refresh", 500, "", {}, new_token_response.users)
    ELSE Answer("refresh", 200, "", new_token_response.returned,
                new_token_response.users)

Response(out) == [route |-> out.route, status |-> out.status, error_code |-> out.error_code]

answer(out) ==
    /\ Cardinality(issued \cup out.token) <= MaxIssued
    /\ users' = out.users
    /\ issued' = issued \cup out.token
    /\ auth_response' = Response(out)
    /\ UNCHANGED <<utc_now, friendships, pending_messages, active_connections,
                   ws_user, ws_state, loop_calls, next_uuid, friend_requests,
                   next_request_uuid>>

register(username, email, password, commit_ok) ==
    answer(register_out(username, email, password, commit_ok))

login(email, password, commit_ok) == answer(login_out(email, password, commit_ok))

\* the tokens a client can present: a string that does not decode, and the
\* tokens of the answers the clients have received
Presentable ==
    {Garbage} \cup {t.access_token : t \in issued} \cup {t.refresh_token : t \in issued}

refresh_token(token) == answer(refresh_token_out(token))

\* an authenticated call: the dependency get_current_user answers 401 or
\* hands the user to the route
authenticated_call(token) ==
    /\ auth_response' =
          [route |-> "bearer",
           status |-> IF get_current_user(users, token, utc_now) = {} THEN 401 ELSE 200,
           error_code |-> ""]
    /\ UNCHANGED <<users, utc_now, issued, friendships, pending_messages,
                   active_connections, ws_user, ws_state, loop_calls, next_uuid,
                   friend_requests, next_request_uuid>>

\* time passes
tick ==
    /\ utc_now < MaxNow
    /\ utc_now' = utc_now + 1
    /\ UNCHANGED <<users, issued, auth_response, friendships, pending_messages,
                   active_connections, ws_user, ws_state, loop_calls, next_uuid,
                   friend_requests, next_request_uuid>>

\* the accounts the database holds when the process starts
InitialUsers ==
    SUBSET {Account("alice"), DbUser("bob", "bob@x", get_password_hash("pw2"))}

InitAuth ==
    /\ users \in InitialUsers
    /\ utc_now = 0
    /\ issued = {}
    /\ auth_response = NoResponse
    /\ friendships = {}
    /\ friend_requests = {}
    /\ next_request_uuid = 1
    /\ pending_messages = {}
    /\ active_connections = [u \in Users |-> None]
    /\ ws_user = [c \in Chans |-> ""]
    /\ ws_state = [c \in Chans |-> "unused"]
    /\ loop_calls = <<>>
    /\ next_uuid = MaxPending + 1

NextAuth ==
    \/ \E username \in AuthNames, email \in Emails, password \in Passwords,
          commit_ok \in BOOLEAN : register(username, email, password, commit_ok)
    \/ \E email \in Emails, password \in Passwords, commit_ok \in BOOLEAN :
          login(email, password, commit_ok)
    \/ \E token \in Presentable : refresh_token(token)
    \/ \E token \in Presentable : authenticated_call(token)
    \/ tick

SpecAuth == InitAuth /\ [][NextAuth]_vars

(***************************************************************************)
(* Properties                                                              *)
(***************************************************************************)
RowsWithId(store, id) == {m \in store : m.id = id}

PendingFor(store, u) == {m \in store : m.recipient_username = u}

\* C1: POST /messages/ transmits a new_message frame or creates a
\* PendingMessage only if sender and recipient are friends at the call;
\* otherwise the call fails and nothing is transmitted or persisted, whether
\* or not the recipient holds a registered channel.
FriendshipGateOnDelivery ==
    \A s \in Users, r \in Users, t \in Texts :
        LET out == create_message_out(s, r, t) IN
        ~are_friends(friendships, s, r) =>
            /\ out.status # 200
            /\ out.sent = <<>>
            /\ out.store = pending_messages

\* C2: every send that returns success has created a PendingMessage carrying
\* the returned id, also when the frame was pushed to a registered recipient.
SuccessfulSendIsStored ==
    \A s \in Users, r \in Users, t \in Texts :
        LET out == create_message_out(s, r, t) IN
        out.status = 200 =>
            \E m \in out.store :
                /\ m.id = out.id
                /\ m.sender_username = s
                /\ m.recipient_username = r

\* C3: an acknowledgment issued by user u (HTTP or realtime frame) removes a
\* PendingMessage only if u is its recipient; the ack of any other user
\* leaves the message in the store.
AckOnlyByRecipient ==
    /\ \A u \in Users, id \in MessageIds :
          \A m \in pending_messages \ mark_message_as_delivered_out(u, id).store :
              m.recipient_username = u
    /\ \A c \in Chans, id \in MessageIds :
          ws_state[c] = "open" =>
              \A m \in pending_messages \ handle_message_delivered_out(c, id).store :
                  m.recipient_username = ws_user[c]

\* C4: when bob is connected and a friend of alice and alice is connected,
\* alice's send returns an id X and pushes new_message X to bob's channel,
\* and bob's message_delivered frame for X then brings a message_delivered
\* notification for X to alice.
LiveDeliveryAckNotifies ==
    \A alice \in Users, bob \in Users, t \in Texts :
        LET to_bob == get_connection(active_connections, bob)
            to_alice == get_connection(active_connections, alice)
            out == create_message_out(alice, bob, t)
            ack == mark_message_delivered(out.store, active_connections, out.id)
        IN  ( /\ alice # bob
              /\ are_friends(friendships, alice, bob)
              /\ to_bob # None /\ send_text_ok(ws_state, to_bob)
              /\ to_alice # None /\ send_text_ok(ws_state, to_alice) )
            => /\ out.status = 200
               /\ Len(out.sent) = 1
               /\ out.sent[1].ws = to_bob
               /\ out.sent[1].frame.type = "new_message"
               /\ out.sent[1].frame.id = out.id
               /\ ack.ok
               /\ ack.calls = <<Call(DeliveredFrame(out.id), alice)>>

\* C5: a send by a friend to a recipient with no registered channel succeeds
\* and leaves the message among the recipient's pending messages; the flush
\* of the recipient's next connection transmits one new_message frame per
\* pending message and leaves none pending.
OfflineSendIsBuffered ==
    /\ \A s \in Users, r \in Users, t \in Texts :
          LET out == create_message_out(s, r, t) IN
          (are_friends(friendships, s, r)
              /\ get_connection(active_connections, r) = None)
          => /\ out.status = 200
             /\ \E m \in PendingFor(out.store, r) :
                   m.id = out.id /\ m.text = t /\ m.sender_username = s
    /\ \A u \in Users, c \in Chans :
          \A f \in flush(c, u, pending_messages, connect(active_connections, c, u)) :
              ~f.failed =>
                 /\ PendingFor(f.store, u) = {}
                 /\ {f.sent[i].frame.id : i \in 1..Len(f.sent)} =
                       {m.id : m \in PendingFor(pending_messages, u)}
                 /\ Len(f.sent) = Cardinality(PendingFor(pending_messages, u))

\* C6: a successful mark_delivered(id), from the HTTP route or from a
\* message_delivered frame, deletes exactly the row with that id: the pending
\* count of its recipient drops by one and every other row stays.
AckDeletesExactlyThatRow ==
    \A id \in MessageIds :
        \A m \in RowsWithId(pending_messages, id) :
            LET after == {mark_message_as_delivered_out(u, id).store : u \in Users}
                         \cup {handle_message_delivered_out(c, id).store :
                                  c \in {b \in Chans : ws_state[b] = "open"}}
            IN  /\ \A u \in Users : mark_message_as_delivered_out(u, id).status = 200
                /\ \A c \in Chans :
                      ws_state[c] = "open" => handle_message_delivered_out(c, id).success
                /\ \A store \in after :
                      /\ store = pending_messages \ {m}
                      /\ Cardinality(PendingFor(store, m.recipient_username)) =
                            Cardinality(PendingFor(pending_messages,
                                                   m.recipient_username)) - 1
                      /\ \A u \in Users \ {m.recipient_username} :
                            PendingFor(store, u) = PendingFor(pending_messages, u)

\* a row of the initial table was acknowledged and a later one is still there
AckedOneOfTwo ==
    /\ RowsWithId(pending_messages, 1) = {}
    /\ RowsWithId(pending_messages, 2) # {}

\* C7: mark_delivered on an id that is not in the store reports not-found
\* (404 on the HTTP route), changes no state and sends or schedules no
\* notification; acknowledging a stored id twice deletes it once and the
\* second acknowledgment is such a not-found.
AckOfAbsentIdIsNotFound ==
    \A id \in MessageIds :
        /\ RowsWithId(pending_messages, id) = {} =>
              /\ \A u \in Users :
                    LET out == mark_message_as_delivered_out(u, id) IN
                    /\ out.status = 404
                    /\ out.sent = <<>>
                    /\ out.calls = <<>>
                    /\ out.store = pending_messages
              /\ \A c \in Chans :
                    ws_state[c] = "open" =>
                       LET out == handle_message_delivered_out(c, id) IN
                       /\ ~out.success
                       /\ out.sent = <<>>
                       /\ out.calls = <<>>
                       /\ out.store = pending_messages
                       /\ out.conns = active_connections
        /\ RowsWithId(pending_messages, id) # {} =>
              LET once == mark_message_delivered(pending_messages,
                                                 active_connections, id)
                  again == mark_message_delivered(once.store,
                                                  active_connections, id)
              IN  /\ once.ok
                  /\ RowsWithId(once.store, id) = {}
                  /\ ~again.ok
                  /\ again.store = once.store
                  /\ again.calls = <<>>

\* the notification of an acknowledged id is scheduled and the id is gone
\* from the store: a repeated ack of it is the not-found case
AckedIdIsAbsent ==
    \E i \in 1..Len(loop_calls) :
        RowsWithId(pending_messages, loop_calls[i].message.id) = {}

FriendshipRowsCanonical ==
    /\ \A f \in friendships : Rank[f[1]] < Rank[f[2]]
    /\ \A f \in friendships, g \in friendships :
          {f[1], f[2]} = {g[1], g[2]} => f = g

\* two friendships were created
TwoFriendships == Cardinality(friendships) >= 2

\* C12: no pair of users has a Friendship and a PENDING FriendRequest of
\* either direction at once.
NoPendingRequestBetweenFriends ==
    \A q \in friend_requests :
        q.status = PENDING =>
            ~are_friends(friendships, q.sender_username, q.recipient_username)

\* a friendship was created while a request of another pair is pending
FriendshipBesidePendingRequest ==
    /\ friendships # {}
    /\ \E q \in friend_requests : q.status = PENDING

\* C13: at most one FriendRequest row exists per ordered pair (sender,
\* recipient), and no row has its sender as its recipient.
OneRequestPerOrderedPair ==
    /\ \A q \in friend_requests, p \in friend_requests :
          (q.sender_username = p.sender_username
              /\ q.recipient_username = p.recipient_username) => q = p
    /\ \A q \in friend_requests : q.sender_username # q.recipient_username

\* one user has sent two requests
TwoRequestsOfOneSender ==
    \E q \in friend_requests, p \in friend_requests :
        q # p /\ q.sender_username = p.sender_username

RequestsBetween(frs, a, b) ==
    {q \in frs : {q.sender_username, q.recipient_username} = {a, b}}

\* C15: send_request reports the first precondition that fails, in the order
\* CANNOT_FRIEND_SELF, USER_NOT_FOUND, FRIENDSHIP_ALREADY_EXISTS,
\* FRIEND_REQUEST_ALREADY_EXISTS (a request of any status from the sender to
\* the recipient), and a failing call changes neither table.
SendRequestErrorOrder ==
    \A sender \in DbUsers, recipient \in Usernames :
        LET out == send_friend_request_out(sender, recipient)
            expected ==
                IF sender = recipient THEN "CANNOT_FRIEND_SELF"
                ELSE IF recipient \notin DbUsers THEN "USER_NOT_FOUND"
                ELSE IF sorted(sender, recipient) \in friendships
                THEN "FRIENDSHIP_ALREADY_EXISTS"
                ELSE IF \E q \in friend_requests :
                           q.sender_username = sender /\ q.recipient_username = recipient
                THEN "FRIEND_REQUEST_ALREADY_EXISTS"
                ELSE ""
        IN  /\ out.response.error = expected
            /\ expected # "" =>
                  /\ out.response.requests = friend_requests
                  /\ out.response.friendships = friendships
                  /\ out.http = IF expected = "CANNOT_FRIEND_SELF" THEN 400
                                ELSE IF expected = "USER_NOT_FOUND" THEN 404
                                ELSE 409

\* a friendship, a pending and a rejected request are there: each of the
\* failing cases has an input
EveryRefusalHasAnInput ==
    /\ friendships # {}
    /\ \E q \in friend_requests : q.status = PENDING
    /\ \E q \in friend_requests : q.status = REJECTED

\* C16: with no relation between A and B, send_request(A,B) returns a PENDING
\* request, and send_request(B,A) after it returns a Friendship, reported as
\* "accepted"; then are_friends holds both ways and no request row is left
\* between the two.
AutoAccept ==
    \A A \in DbUsers, B \in DbUsers :
        ( /\ A # B
          /\ ~are_friends(friendships, A, B)
          /\ RequestsBetween(friend_requests, A, B) = {} )
        => LET forth == create_friend_request(friend_requests, friendships, A, B,
                                              next_request_uuid)
               back == create_friend_request(forth.requests, forth.friendships, B, A,
                                             next_request_uuid + 1)
           IN  /\ response_status(forth) = "pending"
               /\ forth.row = {DbFriendRequest(next_request_uuid, A, B)}
               /\ forth.row \subseteq forth.requests
               /\ \A q \in forth.row : q.status = PENDING
               /\ back.returned = "friendship"
               /\ response_status(back) = "accepted"
               /\ are_friends(back.friendships, A, B)
               /\ are_friends(back.friendships, B, A)
               /\ RequestsBetween(back.requests, A, B) = {}

\* one request was filed and has given way to a friendship
FriendsAfterOneRequest ==
    /\ next_request_uuid = 2
    /\ friend_requests = {}
    /\ friendships # {}

\* C17: send_request(sender, recipient) creates a Friendship only if the
\* request from the recipient to the sender exists with status PENDING.
ImplicitAcceptOnlyOfPending ==
    \A sender \in DbUsers, recipient \in Usernames :
        LET out == send_friend_request_out(sender, recipient) IN
        out.response.friendships # friendships =>
            \E q \in friend_requests :
                /\ q.sender_username = recipient
                /\ q.recipient_username = sender
                /\ q.status = PENDING

\* C18: once A's request to B is REJECTED, every later send_request(A,B) fails
\* with FRIEND_REQUEST_ALREADY_EXISTS (409) and changes nothing: the REJECTED
\* row is still there after every step.
RejectedRequestBlocksResubmission ==
    [][\A q \in friend_requests :
          q.status = REJECTED =>
             LET out == send_friend_request_out(q.sender_username,
                                                q.recipient_username)
             IN  /\ out.response.error = "FRIEND_REQUEST_ALREADY_EXISTS"
                 /\ out.http = 409
                 /\ out.response.requests = friend_requests
                 /\ out.response.friendships = friendships
                 /\ q \in friend_requests'
      ]_vars

\* C19: accept_request and reject_request fail with FRIEND_REQUEST_NOT_FOUND
\* for an unknown id, NOT_AUTHORIZED for a caller who is not the recipient
\* (the sender included), INVALID_FRIEND_REQUEST_STATE for a request that is
\* not PENDING, and a failing call changes neither table.
RespondErrors ==
    \A u \in DbUsers, id \in RequestIds, action \in {"accept", "reject"} :
        LET out == respond_to_friend_request_out(u, id, action)
            rows == {q \in friend_requests : q.id = id}
            expected ==
                IF rows = {} THEN "FRIEND_REQUEST_NOT_FOUND"
                ELSE IF \E q \in rows : q.recipient_username # u THEN "NOT_AUTHORIZED"
                ELSE IF \E q \in rows : q.status # PENDING
                THEN "INVALID_FRIEND_REQUEST_STATE"
                ELSE ""
        IN  /\ out.response.error = expected
            /\ expected # "" =>
                  /\ out.response.requests = friend_requests
                  /\ out.response.friendships = friendships
                  /\ out.http = IF expected = "FRIEND_REQUEST_NOT_FOUND" THEN 404
                                ELSE IF expected = "NOT_AUTHORIZED" THEN 403
                                ELSE 400

\* a request was rejected and another one is pending: all three refusals of
\* a response have an input
RejectedBesidePending ==
    /\ \E q \in friend_requests : q.status = REJECTED
    /\ \E q \in friend_requests : q.status = PENDING
    /\ next_request_uuid <= MaxRequests

\* C20: a successful accept of a PENDING request from S to R creates the
\* Friendship on sorted(S,R) and removes the request rows between S and R in
\* one commit: no step removes a PENDING request without the friendship being
\* there, or creates a friendship and leaves a request of the pair behind.
AcceptIsAtomic ==
    [][ /\ \A u \in DbUsers, id \in RequestIds :
             LET out == respond_to_friend_request_out(u, id, "accept") IN
             out.response.error = "" =>
                \A q \in {p \in friend_requests : p.id = id} :
                   /\ out.response.friendships =
                         friendships \cup {sorted(q.sender_username,
                                                  q.recipient_username)}
                   /\ out.response.requests =
                         friend_requests \ RequestsBetween(friend_requests,
                                              q.sender_username, q.recipient_username)
        /\ \A q \in friend_requests :
              (q.status = PENDING /\ {p \in friend_requests' : p.id = q.id} = {})
              => are_friends(friendships', q.sender_username, q.recipient_username)
        /\ \A f \in friendships' \ friendships :
              RequestsBetween(friend_requests', f[1], f[2]) = {}
      ]_vars

\* a request was accepted: its row is gone and the friendship of another
\* request is not there yet
AcceptedBesidePending ==
    /\ Cardinality(friendships) = 1
    /\ Cardinality(friend_requests) = 1
    /\ next_request_uuid = 3
    /\ \A q \in friend_requests : q.status = PENDING

\* C21: a successful reject by the recipient of a PENDING request changes only
\* the status of that request, to REJECTED: no Friendship is created, every
\* other request stays as it is, and the request is listed neither among the
\* received requests of the recipient nor among the sent ones of the sender.
RejectChangesOneStatus ==
    \A u \in DbUsers, id \in RequestIds :
        LET out == respond_to_friend_request_out(u, id, "reject") IN
        out.response.error = "" =>
            \A q \in {p \in friend_requests : p.id = id} :
                /\ q.status = PENDING /\ q.recipient_username = u
                /\ out.response.friendships = friendships
                /\ out.response.requests =
                      (friend_requests \ {q}) \cup {[q EXCEPT !.status = REJECTED]}
                /\ \A p \in get_user_friend_requests(out.response.requests, u) :
                      p.id # id
                /\ \A p \in get_sent_friend_requests(out.response.requests,
                                                     q.sender_username) : p.id # id

\* one user has rejected a request and still has one to answer
RejectedOneOfTwoReceived ==
    \E q \in friend_requests, p \in friend_requests :
        /\ q.recipient_username = p.recipient_username
        /\ q.status = REJECTED
        /\ p.status = PENDING

SerializedFriendRequests ==
    /\ \A f \in friendships, g \in friendships :
          {f[1], f[2]} = {g[1], g[2]} => f = g
    /\ \A q \in friend_requests, p \in friend_requests :
          (q.sender_username = p.sender_username
              /\ q.recipient_username = p.recipient_username) => q = p
    /\ \A q \in friend_requests, p \in friend_requests :
          (q.sender_username = p.recipient_username
              /\ q.recipient_username = p.sender_username)
          => ~(q.status = PENDING /\ p.status = PENDING)

\* the calls on two pairs have all come to their end
TwoPairsSettled ==
    /\ Cardinality(friendships) = 2
    /\ friend_requests = {}
    /\ next_request_uuid = 3

\* C24: search(q, u) never returns u, a user who shares a Friendship with u,
\* or a user to whom u has sent a request of any status, and it returns at
\* most `limit` users, 20 from the route.
SearchExclusion ==
    \A u \in DbUsers, q \in Queries :
        /\ \A page \in search_users(u, q) : Cardinality(page) <= 20
        /\ \A limit \in {1, SearchLimit} :
              \A page \in search_users_by_query(friend_requests, friendships,
                                                q, u, limit) :
                 /\ Cardinality(page) <= limit
                 /\ u \notin page
                 /\ \A v \in page :
                       /\ ~are_friends(friendships, u, v)
                       /\ \A p \in friend_requests :
                             ~(p.sender_username = u /\ p.recipient_username = v)

\* a user has a friend and a rejected request to the third account
FriendAndRejectedRequest ==
    \E u \in DbUsers, v \in DbUsers, w \in DbUsers :
        /\ are_friends(friendships, u, v)
        /\ \E p \in friend_requests :
              /\ p.sender_username = u
              /\ p.recipient_username = w
              /\ p.status = REJECTED

\* C25: POST /users/friends/respond with action accept returns the user who
\* sent the request, never the calling user, whichever of the two usernames
\* sorts first; with action reject it returns the sender of the rejected
\* request.
RespondReturnsOtherParty ==
    \A u \in DbUsers, id \in RequestIds, action \in {"accept", "reject"} :
        LET out == respond_to_friend_request_out(u, id, action) IN
        out.response.error = "" =>
            /\ out.user # u
            /\ \E q \in friend_requests : q.id = id /\ out.user = q.sender_username

\* C26: connect(websocket, username) replaces any prior binding: the manager
\* holds at most one websocket per username, and get_connection(username) is
\* the websocket of the most recent connect for that username that no
\* disconnect has followed.
RegisterReplacesPriorBinding ==
    /\ \A u \in Users :
          LET websocket == get_connection(active_connections, u) IN
          websocket # None =>
              /\ websocket \in Chans
              /\ ws_user[websocket] = u
              \* websockets are numbered in the order of their connects
              /\ \A b \in Chans : b > websocket => ws_user[b] # u
    /\ \A u \in Users, c \in Chans :
          LET conns == connect(active_connections, c, u) IN
          /\ get_connection(conns, u) = c
          /\ \A v \in Users \ {u} :
                get_connection(conns, v) = get_connection(active_connections, v)
          /\ get_connection(disconnect(conns, u), u) = None

\* a user connected a second time and is bound to the second websocket
ConnectedTwice ==
    \E u \in Users :
        /\ ws_user[1] = u
        /\ ws_user[2] = u
        /\ get_connection(active_connections, u) = 2

\* C27: send_personal_message(message, username) returns true when the user
\* is registered and the transmission succeeds; when the transmission fails it
\* removes the user's binding and returns false; when the user is not
\* registered nothing is transmitted and the map is unchanged.
SendPersonalReportsOutcome ==
    \A u \in Users, id \in MessageIds :
        LET websocket == get_connection(active_connections, u)
            out == send_personal_message(active_connections, ws_state,
                                         DeliveredFrame(id), u)
        IN  IF websocket = None
            THEN out.sent = <<>> /\ out.conns = active_connections
            ELSE IF send_text_ok(ws_state, websocket)
            THEN /\ out.sent = <<Sent(websocket, DeliveredFrame(id))>>
                 /\ out.conns = active_connections
                 /\ out.returned = "True"
            ELSE /\ out.sent = <<>>
                 /\ get_connection(out.conns, u) = None
                 /\ out.returned = "False"

\* C28: the websocket is accepted and registered under username u only if a
\* token is presented that decodes and whose sub is u; with no token, a token
\* that does not decode or a sub other than u the websocket is closed with
\* policy violation, is not registered, and no pending message is transmitted
\* or deleted.
HandshakeGate ==
    \A c \in Chans, u \in Users, token \in Tokens :
        \A out \in websocket_endpoint_out(c, u, token) :
            /\ out.accepted <=>
                  /\ token # NoToken
                  /\ decode_access_token(token) # {}
                  /\ \A payload \in decode_access_token(token) : payload.sub = u
            /\ out.accepted => get_connection(out.conns, u) = c
            /\ ~out.accepted =>
                  /\ out.close = 1008
                  /\ out.conns = active_connections
                  /\ out.sent = <<>>
                  /\ out.store = pending_messages
                  /\ out.calls = <<>>

\* one user is connected, another has pending messages and no websocket yet
ConnectedBesideBacklog ==
    \E c \in Chans, u \in Users, v \in Users :
        /\ u # v
        /\ ws_state[c] = "open"
        /\ get_connection(active_connections, u) = c
        /\ get_connection(active_connections, v) = None
        /\ PendingFor(pending_messages, v) # {}
        /\ \E b \in Chans : ws_state[b] = "unused"

\* C29: every task that has registered its websocket unregisters the user
\* when it ends, however it ends after the registration (client close, send
\* failure, unhandled error in the flush step or in the loop, cancellation):
\* a task whose client has gone comes to its end, and no task that has ended
\* leaves its own websocket bound in the manager.
TerminationUnregisters ==
    /\ [](\A c \in Chans :
             ws_state[c] = "done" =>
                 /\ ws_user[c] = ""
                 /\ \A u \in Users : get_connection(active_connections, u) # c)
    /\ \A c \in Chans : (ws_state[c] = "closing") ~> (ws_state[c] = "done")

\* every websocket was registered and every task has ended
AllTasksEnded ==
    /\ \A c \in Chans : ws_state[c] = "done"
    /\ \A u \in Users : get_connection(active_connections, u) = None

\* C30: in the loop of handle_client_messages a frame that is no valid JSON
\* and a frame of an unknown type neither end the loop nor unregister the user
\* nor change the stored rows; the loop goes on, and a ping that follows gets
\* its pong.
BadFramesAreSkipped ==
    \A c \in Chans :
        ws_state[c] = "open" =>
            /\ \A frame \in {"malformed", "unknown"} :
                  LET out == handle_client_messages_out(c, frame) IN
                  /\ out.loop = "continue"
                  /\ out.sent = <<>>
                  /\ out.conns = active_connections
                  /\ out.store = pending_messages
            \* the turn leaves the state as it is, the ping meets the same state
            /\ LET out == handle_client_messages_out(c, "ping") IN
               /\ out.loop = "continue"
               /\ out.sent = <<Sent(c, PongFrame)>>

\* a user with stored messages waits in the loop of an open websocket
OpenLoopWithBacklog ==
    \E c \in Chans, u \in Users :
        /\ ws_state[c] = "open"
        /\ ws_user[c] = u
        /\ get_connection(active_connections, u) = c
        /\ PendingFor(pending_messages, u) # {}

LoginFailuresDistinguished ==
    \A email \in Emails, password \in Passwords, commit_ok \in BOOLEAN :
        LET out == login_out(email, password, commit_ok)
            user == {u \in users : u.email = email}
        IN  /\ user = {} =>
                  /\ out.status = 404
                  /\ out.error_code = "EMAIL_NOT_FOUND"
                  /\ out.token = {}
                  /\ out.users = users
            /\ (user # {} /\ \A u \in user : ~verify_password(password, u.hashed_password)) =>
                  /\ out.status = 401
                  /\ out.error_code = "INVALID_CREDENTIALS"
                  /\ out.token = {}
                  /\ out.users = users

\* C33: a refresh token R returned to a user by register or login is accepted
\* by refresh(R) at every later time before the expiry of R, whatever happened
\* in between (earlier refreshes with R, further logins of the user).
RefreshTokenStaysAccepted ==
    \A t \in issued :
        t.refresh_token.exp >= utc_now =>
            LET out == refresh_token_out(t.refresh_token) IN
            /\ out.status = 200
            /\ \A answered \in out.token :
                  /\ answered.username = t.username
                  /\ answered.refresh_token = t.refresh_token

\* C34: refresh(token) returns a new access token only if the token decodes,
\* its sub names a user, the user's stored hash matches the token and the
\* stored expiry is in the future; in every other case it fails with
\* AUTHENTICATION_ERROR and returns no token; a successful refresh returns the
\* same refresh token and leaves the stored hash and expiry as they are.
RefreshChecksStoredHash ==
    \A token \in Presentable :
        LET r == refresh_access_token(users, token, utc_now) IN
        /\ r.error \in {"", "AUTHENTICATION_ERROR"}
        /\ r.error # "" => r.returned = {}
        /\ r.error = "" =>
              /\ jwt_decode(token, utc_now) # {}
              /\ \E u \in users :
                    /\ u.username = token.sub
                    /\ verify_token(token, stored_refresh_token(u))
              /\ \A answered \in r.returned : answered.refresh_token = token
              /\ r.users = users

\* C35: on register and on login the hash and the expiry of the new refresh
\* token are committed to the user row before the tokens are returned: while
\* a client holds the refresh token R of a user's latest login, the stored
\* hash matches R; when the commit fails the call fails and returns no tokens.
IssuedTokenIsStored ==
    /\ \A t \in issued :
          (\A later \in issued :
              later.username = t.username => later.refresh_token.exp <= t.refresh_token.exp)
          => \E u \in users :
                /\ u.username = t.username
                /\ verify_token(t.refresh_token, stored_refresh_token(u))
    /\ \A email \in Emails, password \in Passwords :
          LET out == login_out(email, password, FALSE) IN
          out.status # 200 /\ out.token = {}

\* C36: a refresh token is good only for minting access tokens: as the bearer
\* credential of an authenticated call or as the token of the websocket
\* handshake it is rejected and resolves to no user.
RefreshTokenIsNoCredential ==
    \A t \in issued :
        /\ get_current_user(users, t.refresh_token, utc_now) = {}
        /\ \A u \in Users : ~token_accepted(t.refresh_token, u)

\* C37: when a user registers a second websocket while the task of the first
\* is still running, the later end of the first task, or a failed send on the
\* first websocket, does not remove the binding of the second: while the
\* websocket the user registered last is open and its task has not ended, the
\* manager maps the user to it and messages sent to the user are pushed to it.
ReconnectKeepsLatestBinding ==
    \A u \in Users, c \in Chans :
        (/\ ws_user[c] = u
         /\ ws_state[c] = "open"
         \* no websocket was registered after c
         /\ \A b \in Chans : b > c => ws_state[b] = "unused")
        => /\ get_connection(active_connections, u) = c
           /\ \A s \in Users \ {u}, t \in Texts :
                 LET out == create_message_out(s, u, t) IN
                 /\ Len(out.sent) = 1
                 /\ \A i \in 1..Len(out.sent) : out.sent[i].ws = c

\* C38: no accepted message is lost: for every send between friends that
\* returns success, its new_message frame was transmitted to the recipient's
\* websocket or a PendingMessage with its id is in the store; when the push to
\* a registered recipient raises, the message is persisted as pending, and
\* the flush of the recipient's next connection delivers what is pending.
NoAcceptedMessageLost ==
    /\ \A s \in Users : \A r \in Users \ {s}, t \in Texts :
          are_friends(friendships, s, r) =>
              LET out == create_message_out(s, r, t)
                  connection == get_connection(active_connections, r)
              IN  /\ out.status = 200 =>
                        \/ out.sent # <<>>
                        \/ RowsWithId(out.store, out.id) # {}
                  /\ (connection # None /\ ~send_text_ok(ws_state, connection)) =>
                        /\ out.status = 200
                        /\ RowsWithId(out.store, out.id) # {}
    /\ \A c \in Chans, u \in Users :
          (ws_state[c] = "unused" /\ PendingFor(pending_messages, u) # {}) =>
              \E out \in websocket_endpoint_out(
                             c, u, create_access_token(u, ACCESS_TOKEN_EXPIRE_MINUTES, 0)) :
                  /\ out.accepted
                  /\ Len(out.sent) = Cardinality(PendingFor(pending_messages, u))

====
